---- MODULE Spec2Model ----
(***************************************************************************)
(* Currency exchange-rate service: the rate store (data.ExchangeRates),    *)
(* the unary GetRate RPC, the per-connection receive loop of               *)
(* SubscribeRates and the fan-out loop handleUpdates.                      *)
(*                                                                         *)
(* Rates are float64 in the program.  They are modelled as fixed-point     *)
(* numbers in hundredths (1.1 is 110); a quotient of two rates is kept as  *)
(* a reduced fraction, or NaN / +Inf where IEEE-754 division gives them.   *)
(***************************************************************************)
EXTENDS Integers, Sequences, FiniteSets, TLC

\* ------------------------------------------------------------------ bounds
\* longest feed body (number of Cube entries) the rate store is refreshed with
MaxCubes == 2
\* most subscribe requests the clients send, all streams together
MaxReqs == 3
\* most refreshes of the table followed statement by statement
MaxRefreshes == 2

\* ------------------------------------------------------------- value sets
Currencies == {"EUR", "USD", "GBP"}

\* the Cube entries feeds are made of; a rate attribute is a sequence of
\* characters.  Ordinary entries, a zero rate, an entry for the reference
\* currency itself, and a rate that is not a number.
Cubes ==
    { [currency |-> "USD", rate |-> <<"1", ".", "1">>],
      [currency |-> "GBP", rate |-> <<"0", ".", "8", "5">>],
      [currency |-> "USD", rate |-> <<"0">>],
      [currency |-> "EUR", rate |-> <<"0", ".", "8", "5">>],
      [currency |-> "GBP", rate |-> <<"a", "b", "c">>] }

RECURSIVE SeqsUpTo(_, _)
SeqsUpTo(S, n) ==
    IF n = 0 THEN { <<>> }
    ELSE LET shorter == SeqsUpTo(S, n - 1)
         IN  shorter \cup { Append(s, x) : s \in { t \in shorter : Len(t) = n - 1 }, x \in S }

None == [kind |-> "none"]
NilErr == [kind |-> "nil"]

\* what http.DefaultClient.Get gives back: a transport error, or a response
\* with a status code and (decoded) Cube entries
StatusCodes == {200, 500}
Responses ==
    { [kind |-> "transport_error", status |-> 0, body |-> <<>>] }
    \cup [kind : {"response"}, status : StatusCodes \ {200}, body : { <<>> }]
    \cup [kind : {"response"}, status : {200}, body : SeqsUpTo(Cubes, MaxCubes)]

\* ---------------------------------------------------------- float64 model
Scale == 100

DigitChars == {"0", "1", "2", "3", "4", "5", "6", "7", "8", "9"}

DigitVal(ch) ==
    CASE ch = "0" -> 0 [] ch = "1" -> 1 [] ch = "2" -> 2 [] ch = "3" -> 3
      [] ch = "4" -> 4 [] ch = "5" -> 5 [] ch = "6" -> 6 [] ch = "7" -> 7
      [] ch = "8" -> 8 [] ch = "9" -> 9

\* value of the decimal digits s[from..to]
RECURSIVE DigitsVal(_, _, _)
DigitsVal(s, from, to) ==
    IF to < from THEN 0
    ELSE 10 * DigitsVal(s, from, to - 1) + DigitVal(s[to])

\* strconv.ParseFloat(s, 64) on plain decimal strings: digits with at most
\* one point; anything else is a syntax error.  The value is in hundredths.
ParseFloat(s) ==
    LET dots  == { i \in 1..Len(s) : s[i] = "." }
        valid == /\ \A i \in 1..Len(s) : s[i] \in DigitChars \cup {"."}
                 /\ Cardinality(dots) <= 1
                 /\ \E i \in 1..Len(s) : s[i] \in DigitChars
        dot   == IF dots = {} THEN Len(s) + 1 ELSE CHOOSE i \in dots : TRUE
        tenths     == IF dot + 1 <= Len(s) THEN DigitVal(s[dot + 1]) ELSE 0
        hundredths == IF dot + 2 <= Len(s) THEN DigitVal(s[dot + 2]) ELSE 0
    IN  IF valid
        THEN [err |-> NilErr,
              val |-> Scale * DigitsVal(s, 1, dot - 1) + 10 * tenths + hundredths]
        ELSE [err |-> [kind |-> "ErrSyntax"], val |-> 0]

RECURSIVE Gcd(_, _)
Gcd(a, b) == IF b = 0 THEN a ELSE Gcd(b, a % b)

\* the float64 quotient dr / br of two non-negative rates
Quot(dr, br) ==
    IF br = 0
    THEN IF dr = 0 THEN [kind |-> "NaN", num |-> 0, den |-> 0]
                   ELSE [kind |-> "+Inf", num |-> 0, den |-> 0]
    ELSE LET g == Gcd(dr, br)
         IN  [kind |-> "num", num |-> dr \div g, den |-> br \div g]

\* the float64 constants 0 and 1
Zero == [kind |-> "num", num |-> 0, den |-> 1]
One == [kind |-> "num", num |-> 1, den |-> 1]

\* ------------------------------------------------------------------ state
VARIABLES
    rates,          \* ExchangeRates.rates: map[string]float64
    newRatesErr,    \* the error NewRates returned at construction
    last,           \* the last call of the rate store / unary RPC and its result
    subscriptions,  \* Currency.subscriptions: map[stream][]*RateRequest
    pc,             \* per connection: where its SubscribeRates call stands
    rr,             \* per connection: the request Recv returned
    rrs,            \* per connection: the local slice rrs
    validationError,\* per connection: the local validationError
    reqs,           \* subscribe requests received so far, all connections
    recvErr,        \* per connection: the error Recv last returned
    ret,            \* per connection: what SubscribeRates returned
    reply,          \* per connection: the last error message sent by the receive loop
    ru,             \* the channel from MonitorRates: 1 when an event is pending
    fpc,            \* handleUpdates: Wait (on ru), Range, Send, Done (range over)
    todo,           \* handleUpdates: map keys the range loop has yet to produce
    k,              \* handleUpdates: the connection being visited
    v,              \* handleUpdates: the slice being ranged over
    idx,            \* handleUpdates: position in v
    sent,           \* per connection: messages the current scan has sent to it
    startLen,       \* per connection: length of its list when the scan began
    crashed,        \* the runtime has thrown a fatal error (concurrent map access)
    refresh,        \* a GetRates call taken statement by statement
    lookup,         \* an ExchangeRates.GetRate call taken statement by statement
    stalled,        \* streams whose client has stopped reading: a Send on one blocks
    startClosed,    \* connections whose SubscribeRates had returned when the scan began
    err             \* handleUpdates: what k.Send last returned

rateVars == <<rates, newRatesErr, last>>
connVars == <<subscriptions, pc, rr, rrs, validationError, reqs, recvErr, ret, reply>>
fanVars == <<ru, fpc, todo, k, v, idx, sent, startLen>>
stepVars == <<refresh, lookup>>
sendVars == <<stalled, startClosed, err>>
vars == <<rates, newRatesErr, last, subscriptions, pc, rr, rrs, validationError,
          reqs, recvErr, ret, reply, ru, fpc, todo, k, v, idx, sent, startLen, crashed,
          refresh, lookup, stalled, startClosed, err>>

\* ------------------------------------------------------------- rate store
\* m[key] = val on a Go map
Put(m, key, val) ==
    [x \in DOMAIN m \cup {key} |-> IF x = key THEN val ELSE m[x]]

EmptyMap == [x \in {} |-> 0]

\* the loop over md.CubeData in GetRates: parse each rate and store it,
\* returning at the first entry that does not parse
RECURSIVE ParseCubes(_, _, _)
ParseCubes(m, body, i) ==
    IF i > Len(body) THEN [rates |-> m, err |-> NilErr, stored |-> i - 1]
    ELSE LET p == ParseFloat(body[i].rate)
         IN  IF p.err # NilErr
             THEN [rates |-> m, err |-> p.err, stored |-> i - 1]
             ELSE ParseCubes(Put(m, body[i].currency, p.val), body, i + 1)

\* ExchangeRates.GetRates: one fetch of the feed applied to the table
GetRates(m, resp) ==
    IF resp.kind = "transport_error"
    THEN [rates |-> m, err |-> NilErr, stored |-> 0]
    ELSE IF resp.status # 200
    THEN [rates |-> m, err |-> [kind |-> "BadStatus"], stored |-> 0]
    ELSE LET p == ParseCubes(m, resp.body, 1)
         IN  IF p.err # NilErr THEN p
             ELSE [rates |-> Put(p.rates, "EUR", Scale), err |-> NilErr,
                   stored |-> p.stored]

\* NewRates: an empty table, then one GetRates
NewRates(resp) == GetRates(EmptyMap, resp)

NotFound(code) == [kind |-> "NotFound", code |-> code]

\* a lookup that tests the destination before the base
ExchangeRates_GetRate_DestFirst(m, base, dest) ==
    IF dest \notin DOMAIN m THEN [rate |-> Zero, err |-> NotFound(dest)]
    ELSE IF base \notin DOMAIN m THEN [rate |-> Zero, err |-> NotFound(base)]
    ELSE [rate |-> Quot(m[dest], m[base]), err |-> NilErr]

\* ExchangeRates.GetRate
ExchangeRates_GetRate(m, base, dest) ==
    IF base \notin DOMAIN m THEN [rate |-> Zero, err |-> NotFound(base)]
    ELSE IF dest \notin DOMAIN m THEN [rate |-> Zero, err |-> NotFound(dest)]
    ELSE [rate |-> Quot(m[dest], m[base]), err |-> NilErr]


\* ------------------------------------------------------------ unary GetRate
RateRequests == [Base : Currencies, Destination : Currencies]

RateResponse(base, dest, rate) ==
    [kind |-> "RateResponse", Base |-> base, Destination |-> dest, Rate |-> rate]

\* status.Newf(code, ...)
StatusNewf(code) == [kind |-> "Status", code |-> code, details |-> <<>>]

\* (*Status).WithDetails(detail): fails only for a status with code OK (a
\* RateRequest always marshals); on failure the returned status is nil
WithDetails(st, detail) ==
    IF st.code = "OK"
    THEN [status |-> None, err |-> [kind |-> "NoDetailsForOK"]]
    ELSE [status |-> [st EXCEPT !.details = Append(@, detail)], err |-> NilErr]

\* the earlier revision of Currency.GetRate, which has no same-currency check
Currency_GetRate_NoCheck(m, req) ==
    LET g == ExchangeRates_GetRate(m, req.Base, req.Destination)
    IN  IF g.err # NilErr THEN [resp |-> None, err |-> g.err]
        ELSE [resp |-> RateResponse(req.Base, req.Destination, g.rate), err |-> NilErr]

\* Currency.GetRate
Currency_GetRate(m, req) ==
    IF req.Destination = req.Base
    THEN LET w == WithDetails(StatusNewf("InvalidArgument"), req)
         IN  IF w.err # NilErr THEN [resp |-> None, err |-> w.err]
             ELSE [resp |-> None, err |-> w.status]
    ELSE LET g == ExchangeRates_GetRate(m, req.Base, req.Destination)
         IN  IF g.err # NilErr THEN [resp |-> None, err |-> g.err]
             ELSE [resp |-> RateResponse(req.Base, req.Destination, g.rate),
                   err |-> NilErr]

\* the fetch behind a GetRates call failed: no response, a status other than
\* 200, or an entry whose rate does not parse
FetchFailed(resp) ==
    \/ resp.kind = "transport_error"
    \/ resp.status # 200
    \/ \E i \in 1..Len(resp.body) : ParseFloat(resp.body[i].rate).err # NilErr

NoCall ==
    [op |-> "none", arg |-> None, resp |-> None, err |-> NilErr,
     failed |-> FALSE, stored |-> 0]

\* a caller runs ExchangeRates.GetRates against the feed
CallGetRates ==
    /\ ~crashed
    /\ \E resp \in Responses :
         LET g == GetRates(rates, resp)
         IN  /\ rates' = g.rates
             /\ last' = [op |-> "GetRates", arg |-> None, resp |-> None, err |-> g.err,
                          failed |-> FetchFailed(resp), stored |-> g.stored]
    /\ UNCHANGED <<sendVars, stepVars, newRatesErr, connVars, fanVars, crashed>>

\* a caller (the unary RPC, the fan-out loop, a test) runs ExchangeRates.GetRate
CallRate ==
    /\ ~crashed
    /\ \E req \in RateRequests :
         LET g == ExchangeRates_GetRate(rates, req.Base, req.Destination)
         IN  last' = [op |-> "Rate", arg |-> req, resp |-> g.rate, err |-> g.err,
                      failed |-> FALSE, stored |-> 0]
    /\ UNCHANGED <<sendVars, stepVars, rates, newRatesErr, connVars, fanVars, crashed>>

\* a client calls the unary GetRate RPC
CallGetRate ==
    /\ ~crashed
    /\ \E req \in RateRequests :
         LET g == Currency_GetRate(rates, req)
         IN  last' = [op |-> "GetRate", arg |-> req, resp |-> g.resp, err |-> g.err,
                      failed |-> FALSE, stored |-> 0]
    /\ UNCHANGED <<sendVars, stepVars, rates, newRatesErr, connVars, fanVars, crashed>>


\* ------------------------------------- rate store, statement by statement
\* GetRates and GetRate run in different goroutines (the monitor; an RPC
\* handler or the fan-out loop) on the same map e.rates, with no lock.
\* refresh.before is the table as it stood when the refresh began storing;
\* lookup.snaps collects the tables that stood between refreshes at some
\* moment of the lookup, and the table a refresh still under way when the
\* lookup ends is going to leave.
\* refresh.n counts the refreshes begun.
NoRefresh == [pc |-> "Idle", body |-> <<>>, i |-> 0, before |-> EmptyMap, n |-> 0]

\* the GetRates call is over
Idle(r) == [NoRefresh EXCEPT !.n = r.n]

NoLookup ==
    [pc |-> "Idle", req |-> None, br |-> 0, rate |-> Zero, err |-> NilErr, snaps |-> {}]

\* a GetRates call has returned and left table m behind
Returned(m) ==
    IF lookup.pc \in {"Base", "Dest"} THEN [lookup EXCEPT !.snaps = @ \cup {m}]
    ELSE lookup

\* the table the refresh under way leaves when it runs to its end alone
Pending ==
    IF refresh.pc = "Idle" THEN {}
    ELSE IF refresh.pc = "Reference" THEN { Put(rates, "EUR", Scale) }
    ELSE LET p == ParseCubes(rates, refresh.body, refresh.i)
         IN  { IF p.err # NilErr THEN p.rates ELSE Put(p.rates, "EUR", Scale) }

\* GetRates: the feed is fetched and decoded; a transport error or a status
\* other than 200 ends the call
GetRates_Fetch ==
    /\ ~crashed
    /\ refresh.pc = "Idle"
    /\ refresh.n < MaxRefreshes
    /\ \E resp \in Responses :
         refresh' = IF resp.kind = "transport_error" \/ resp.status # 200
                    THEN [refresh EXCEPT !.n = @ + 1]
                    ELSE [pc |-> IF Len(resp.body) = 0 THEN "Reference" ELSE "Store",
                          body |-> resp.body, i |-> 1, before |-> rates,
                          n |-> refresh.n + 1]
    /\ UNCHANGED <<sendVars, rates, newRatesErr, last, connVars, fanVars, crashed, lookup>>

\* one turn of the loop over md.CubeData: parse the rate and store it, or
\* return the parse error
GetRates_Store ==
    /\ ~crashed
    /\ refresh.pc = "Store"
    /\ LET c == refresh.body[refresh.i]
           p == ParseFloat(c.rate)
       IN  IF p.err # NilErr
           THEN /\ rates' = rates
                /\ refresh' = Idle(refresh)
                /\ lookup' = Returned(rates)
           ELSE /\ rates' = Put(rates, c.currency, p.val)
                /\ refresh' = IF refresh.i = Len(refresh.body)
                              THEN [refresh EXCEPT !.pc = "Reference"]
                              ELSE [refresh EXCEPT !.i = @ + 1]
                /\ lookup' = lookup
    /\ UNCHANGED <<sendVars, newRatesErr, last, connVars, fanVars, crashed>>

\* e.rates["EUR"] = 1; return nil
GetRates_Reference ==
    /\ ~crashed
    /\ refresh.pc = "Reference"
    /\ rates' = Put(rates, "EUR", Scale)
    /\ refresh' = Idle(refresh)
    /\ lookup' = Returned(Put(rates, "EUR", Scale))
    /\ UNCHANGED <<sendVars, newRatesErr, last, connVars, fanVars, crashed>>

\* a goroutine enters ExchangeRates.GetRate(base, dest)
GetRate_Call ==
    /\ ~crashed
    /\ lookup.pc = "Idle"
    /\ \E req \in RateRequests :
         lookup' = [pc |-> "Base", req |-> req, br |-> 0, rate |-> Zero, err |-> NilErr,
                    snaps |-> { IF refresh.pc = "Idle" THEN rates ELSE refresh.before }]
    /\ UNCHANGED <<sendVars, rates, newRatesErr, last, connVars, fanVars, crashed, refresh>>

\* br, ok := e.rates[base]
GetRate_Base ==
    /\ ~crashed
    /\ lookup.pc = "Base"
    /\ lookup' = IF lookup.req.Base \notin DOMAIN rates
                 THEN [lookup EXCEPT !.pc = "Done", !.err = NotFound(lookup.req.Base),
                                     !.snaps = @ \cup Pending]
                 ELSE [lookup EXCEPT !.pc = "Dest", !.br = rates[lookup.req.Base]]
    /\ UNCHANGED <<sendVars, rates, newRatesErr, last, connVars, fanVars, crashed, refresh>>

\* dr, ok := e.rates[dest]; return dr / br, nil
GetRate_Dest ==
    /\ ~crashed
    /\ lookup.pc = "Dest"
    /\ lookup' = IF lookup.req.Destination \notin DOMAIN rates
                 THEN [lookup EXCEPT !.pc = "Done", !.br = 0,
                                     !.err = NotFound(lookup.req.Destination),
                                     !.snaps = @ \cup Pending]
                 ELSE [lookup EXCEPT !.pc = "Done", !.br = 0,
                                     !.rate = Quot(rates[lookup.req.Destination], lookup.br),
                                     !.snaps = @ \cup Pending]
    /\ UNCHANGED <<sendVars, rates, newRatesErr, last, connVars, fanVars, crashed, refresh>>

\* the caller has the result
GetRate_Return ==
    /\ ~crashed
    /\ lookup.pc = "Done"
    /\ lookup' = NoLookup
    /\ UNCHANGED <<sendVars, rates, newRatesErr, last, connVars, fanVars, crashed, refresh>>

\* GetRates is at an assignment to e.rates while GetRate is at a read of it
TableRaceLive == refresh.pc \in {"Store", "Reference"} /\ lookup.pc \in {"Base", "Dest"}

\* the runtime detects the concurrent map read and map write and throws
TableRuntimeFatal ==
    /\ ~crashed
    /\ TableRaceLive
    /\ crashed' = TRUE
    /\ UNCHANGED <<sendVars, rateVars, connVars, fanVars, stepVars>>


\* --------------------------------------------------- streaming connections
Conns == {"A", "B"}

\* the pairs clients subscribe to
SubRequests ==
    { [Base |-> "EUR", Destination |-> "USD"], [Base |-> "USD", Destination |-> "GBP"] }

EOF == [kind |-> "EOF"]
RecvErrors == { [kind |-> "Canceled"], [kind |-> "Unavailable"] }

\* the feed responses the monitor's ticks (and the first fetch) meet
TickResponses ==
    { [kind |-> "transport_error", status |-> 0, body |-> <<>>],
      [kind |-> "response", status |-> 500, body |-> <<>>],
      [kind |-> "response", status |-> 200,
       body |-> << [currency |-> "USD", rate |-> <<"1", ".", "2">>] >>] }

\* c.subscriptions[src], with the zero value for a missing key
Subs(c) == IF c \in DOMAIN subscriptions THEN subscriptions[c] ELSE <<>>

SamePair(a, b) == a.Base = b.Base /\ a.Destination = b.Destination

\* the earlier revision of SubscribeRates, which appends without looking
ValidationError_NoCheck(list, req) == None

\* the loop over rrs in SubscribeRates: the validation error for a request
\* whose pair is already in the list, nil (None) otherwise
ValidationError(list, req) ==
    IF \E i \in 1..Len(list) : SamePair(list[i], req)
    THEN LET w == WithDetails(StatusNewf("AlreadyExists"), req)
         IN  IF w.err # NilErr THEN None ELSE w.status
    ELSE None

\* a receive loop that returns whatever Recv returned, io.EOF included
AfterRecv_NoEOF(e) ==
    IF e # NilErr THEN [pc |-> "Returned", ret |-> e]
    ELSE [pc |-> "Lookup", ret |-> None]

\* what the receive loop does with Recv's error: io.EOF breaks out of the
\* loop and SubscribeRates returns nil, any other error is returned as it is
AfterRecv(e) ==
    IF e = EOF THEN [pc |-> "Returned", ret |-> NilErr]
    ELSE IF e # NilErr THEN [pc |-> "Returned", ret |-> e]
    ELSE [pc |-> "Lookup", ret |-> None]

\* the framework invokes SubscribeRates for a new stream
SubscribeRates_Open(c) ==
    /\ ~crashed
    /\ pc[c] = "NotOpen"
    /\ pc' = [pc EXCEPT ![c] = "Recv"]
    /\ UNCHANGED <<sendVars, stepVars, rateVars, subscriptions, rr, rrs, validationError, reqs, recvErr,
                   ret, reply, fanVars, crashed>>

\* src.Recv() returns: a request, io.EOF or another error.  With io.EOF or
\* an error the stream is over, and a Send on it fails instead of blocking.
SubscribeRates_Recv(c) ==
    /\ ~crashed
    /\ pc[c] = "Recv"
    /\ \E res \in [rr : SubRequests, err : {NilErr}]
                  \cup [rr : {None}, err : {EOF} \cup RecvErrors] :
         LET a == AfterRecv(res.err)
         IN  /\ res.err = NilErr => reqs < MaxReqs
             /\ rr' = [rr EXCEPT ![c] = res.rr]
             /\ recvErr' = [recvErr EXCEPT ![c] = res.err]
             /\ reqs' = IF res.err = NilErr THEN reqs + 1 ELSE reqs
             /\ pc' = [pc EXCEPT ![c] = a.pc]
             /\ ret' = [ret EXCEPT ![c] = a.ret]
             /\ stalled' = IF a.pc = "Returned" THEN stalled \ {c} ELSE stalled
    /\ UNCHANGED <<startClosed, err, stepVars, rateVars, subscriptions, rrs, validationError, reply, fanVars,
                   crashed>>

\* rrs, ok := c.subscriptions[src] and the check that the pair is new
SubscribeRates_Lookup(c) ==
    /\ ~crashed
    /\ pc[c] = "Lookup"
    /\ LET ve == ValidationError(Subs(c), rr[c])
       IN  /\ rrs' = [rrs EXCEPT ![c] = Subs(c)]
           /\ validationError' = [validationError EXCEPT ![c] = ve]
           /\ pc' = [pc EXCEPT ![c] = IF ve # None THEN "Reply" ELSE "Write"]
    /\ UNCHANGED <<sendVars, stepVars, rateVars, subscriptions, rr, reqs, recvErr, ret, reply, fanVars,
                   crashed>>

\* src.Send of the validation error (its result is dropped), then continue.
\* Send blocks while the client does not read.
SubscribeRates_Reply(c) ==
    /\ ~crashed
    /\ pc[c] = "Reply"
    /\ c \notin stalled
    /\ reply' = [reply EXCEPT ![c] = [kind |-> "Error", status |-> validationError[c]]]
    /\ pc' = [pc EXCEPT ![c] = "Recv"]
    /\ rr' = [rr EXCEPT ![c] = None]
    /\ rrs' = [rrs EXCEPT ![c] = <<>>]
    /\ validationError' = [validationError EXCEPT ![c] = None]
    /\ UNCHANGED <<sendVars, stepVars, rateVars, subscriptions, reqs, recvErr, ret, fanVars, crashed>>

\* rrs = append(rrs, rr); c.subscriptions[src] = rrs.  A key that enters the
\* map while the fan-out loop ranges over it may or may not be produced.
SubscribeRates_Write(c) ==
    /\ ~crashed
    /\ pc[c] = "Write"
    /\ subscriptions' = Put(subscriptions, c, Append(rrs[c], rr[c]))
    /\ pc' = [pc EXCEPT ![c] = "Recv"]
    /\ IF fpc \in {"Range", "Send"} /\ c \notin DOMAIN subscriptions
       THEN todo' \in {todo, todo \cup {c}}
       ELSE todo' = todo
    /\ rr' = [rr EXCEPT ![c] = None]
    /\ rrs' = [rrs EXCEPT ![c] = <<>>]
    /\ UNCHANGED <<sendVars, stepVars, rateVars, validationError, reqs, recvErr, ret, reply,
                   ru, fpc, k, v, idx, sent, startLen, crashed>>


\* the client of an open stream has stopped reading (it hangs, or its host
\* dropped off the network without closing the connection) and the stream's
\* flow-control window is full.  This shows when a goroutine is about to
\* Send on the stream.
ClientStalls(c) ==
    /\ ~crashed
    /\ pc[c] \notin {"NotOpen", "Returned"}
    /\ pc[c] = "Reply" \/ (fpc = "Send" /\ k = c)
    /\ c \notin stalled
    /\ stalled' = stalled \cup {c}
    /\ UNCHANGED <<startClosed, err, stepVars, rateVars, connVars, fanVars, crashed>>

\* ------------------------------------------------------------ rate monitor
\* MonitorRates, one tick: refresh the table; an event goes on the channel
\* when the refresh reported no error.  The channel is unbuffered: the
\* monitor does not tick again while an event waits to be taken.
MonitorRates_Tick ==
    /\ ~crashed
    /\ ru = 0
    /\ \E resp \in TickResponses :
         LET g == GetRates(rates, resp)
         IN  /\ rates' = g.rates
             /\ ru' = IF g.err = NilErr THEN 1 ELSE 0
    /\ UNCHANGED <<sendVars, stepVars, newRatesErr, last, connVars, fpc, todo, k, v, idx, sent,
                   startLen, crashed>>

\* ------------------------------------------------------------ fan-out loop
NoConn == "-"

\* for range ru: an event is taken and the range over c.subscriptions begins
HandleUpdates_Event ==
    /\ ~crashed
    /\ fpc = "Wait"
    /\ ru = 1
    /\ ru' = 0
    /\ fpc' = "Range"
    /\ todo' = DOMAIN subscriptions
    /\ startLen' = [c \in Conns |-> Len(Subs(c))]
    /\ startClosed' = { c \in Conns : pc[c] = "Returned" }
    /\ UNCHANGED <<stalled, err, stepVars, rateVars, connVars, k, v, idx, sent, crashed>>

\* for k, v := range c.subscriptions: the next key, in no particular order,
\* or the end of the range
HandleUpdates_Range ==
    /\ ~crashed
    /\ fpc = "Range"
    /\ IF todo = {}
       THEN /\ fpc' = "Done"
            /\ UNCHANGED <<todo, k, v, idx>>
       ELSE \E c \in todo :
              /\ todo' = todo \ {c}
              /\ IF Len(subscriptions[c]) = 0
                 THEN fpc' = "Range" /\ UNCHANGED <<k, v, idx>>
                 ELSE /\ fpc' = "Send"
                      /\ k' = c
                      /\ v' = subscriptions[c]
                      /\ idx' = 1
    /\ err' = NilErr
    /\ UNCHANGED <<stalled, startClosed, stepVars, rateVars, connVars, ru, sent, startLen, crashed>>

\* the range is over: back to the receive on ru.  (sent, startLen and
\* startClosed describe one scan; they are cleared with it.)
HandleUpdates_Loop ==
    /\ ~crashed
    /\ fpc = "Done"
    /\ fpc' = "Wait"
    /\ sent' = [c \in Conns |-> <<>>]
    /\ startLen' = [c \in Conns |-> 0]
    /\ startClosed' = {}
    /\ UNCHANGED <<stalled, err, stepVars, rateVars, connVars, ru, todo, k, v, idx, crashed>>

\* what k.Send returns: nil, or an error (the connection broke, the stream
\* is over)
SendFailed == [kind |-> "SendFailed"]
SendResults == {NilErr, SendFailed}

\* a loop that answers a failed Send by dropping the connection's entry
\* from the registry and leaving the inner loop
HandleUpdates_Send_DropOnError ==
    /\ ~crashed
    /\ fpc = "Send"
    /\ k \notin stalled
    /\ LET q == v[idx]
           g == ExchangeRates_GetRate(rates, q.Base, q.Destination)
           msg == RateResponse(q.Base, q.Destination, g.rate)
       IN  sent' = [sent EXCEPT ![k] = Append(@, msg)]
    /\ err' \in SendResults
    /\ IF err' # NilErr
       THEN /\ subscriptions' = [c \in DOMAIN subscriptions \ {k} |-> subscriptions[c]]
            /\ fpc' = "Range" /\ k' = NoConn /\ v' = <<>> /\ idx' = 0
       ELSE /\ subscriptions' = subscriptions
            /\ IF idx = Len(v)
               THEN fpc' = "Range" /\ k' = NoConn /\ v' = <<>> /\ idx' = 0
               ELSE fpc' = "Send" /\ idx' = idx + 1 /\ UNCHANGED <<k, v>>
    /\ UNCHANGED <<stalled, startClosed, stepVars, rateVars, pc, rr, rrs, validationError,
                   reqs, recvErr, ret, reply, ru, todo, startLen, crashed>>

\* an inner loop that leaves after its first pair
HandleUpdates_Send_FirstOnly ==
    /\ ~crashed
    /\ fpc = "Send"
    /\ k \notin stalled
    /\ LET q == v[idx]
           g == ExchangeRates_GetRate(rates, q.Base, q.Destination)
           msg == RateResponse(q.Base, q.Destination, g.rate)
       IN  sent' = [sent EXCEPT ![k] = Append(@, msg)]
    /\ err' \in SendResults
    /\ fpc' = "Range" /\ k' = NoConn /\ v' = <<>> /\ idx' = 0
    /\ UNCHANGED <<stalled, startClosed, stepVars, rateVars, connVars, ru, todo, startLen, crashed>>

\* for _, rr := range v: compute the rate, send the RateResponse (with the
\* rate GetRate returned, 0 on error) and go on.  Whether GetRate or Send
\* returned an error changes nothing but the log: the loop goes on with the
\* next pair.  k.Send has no deadline:
\* it returns when the message is handed to the transport, which it is not
\* while the client of k does not read.
HandleUpdates_Send ==
    /\ ~crashed
    /\ fpc = "Send"
    /\ k \notin stalled
    /\ LET q == v[idx]
           g == ExchangeRates_GetRate(rates, q.Base, q.Destination)
           msg == RateResponse(q.Base, q.Destination, g.rate)
       IN  sent' = [sent EXCEPT ![k] = Append(@, msg)]
    /\ err' \in SendResults
    /\ IF idx = Len(v)
       THEN fpc' = "Range" /\ k' = NoConn /\ v' = <<>> /\ idx' = 0
       ELSE fpc' = "Send" /\ idx' = idx + 1 /\ UNCHANGED <<k, v>>
    /\ UNCHANGED <<stalled, startClosed, stepVars, rateVars, connVars, ru, todo, startLen, crashed>>

\* ------------------------------------------------- unsynchronised map access
\* the fan-out loop is inside its range over c.subscriptions
Iterating == fpc \in {"Range", "Send"}

\* Two goroutines are at the map at once, one of them writing: a receive
\* loop assigns c.subscriptions[src] while the fan-out loop fetches its next
\* key or another receive loop reads or assigns the map.
RaceLive ==
    \E c \in Conns :
      /\ pc[c] = "Write"
      /\ \/ fpc = "Range"
         \/ \E d \in Conns \ {c} : pc[d] \in {"Write", "Lookup"}

\* The Go runtime detects the concurrent map access and throws: the process
\* dies.  (When it does not, the accesses take effect one after the other.)
RuntimeFatal ==
    /\ ~crashed
    /\ RaceLive
    /\ crashed' = TRUE
    /\ UNCHANGED <<sendVars, stepVars, rateVars, connVars, fanVars>>

\* ---------------------------------------------------------- specifications
InitConns ==
    /\ subscriptions = EmptyMap
    /\ pc = [c \in Conns |-> "NotOpen"]
    /\ rr = [c \in Conns |-> None]
    /\ rrs = [c \in Conns |-> <<>>]
    /\ validationError = [c \in Conns |-> None]
    /\ reqs = 0
    /\ recvErr = [c \in Conns |-> NilErr]
    /\ ret = [c \in Conns |-> None]
    /\ reply = [c \in Conns |-> None]
    /\ ru = 0
    /\ fpc = "Wait"
    /\ todo = {}
    /\ k = NoConn
    /\ v = <<>>
    /\ idx = 0
    /\ sent = [c \in Conns |-> <<>>]
    /\ startLen = [c \in Conns |-> 0]
    /\ crashed = FALSE
    /\ refresh = NoRefresh
    /\ lookup = NoLookup
    /\ stalled = {}
    /\ startClosed = {}
    /\ err = NilErr

\* the server after NewRates and NewCurrency, started when NewRates reported
\* no error (which it also does when the first fetch met a transport error)
Init ==
    /\ \E resp \in TickResponses :
         /\ NewRates(resp).err = NilErr
         /\ rates = NewRates(resp).rates
         /\ newRatesErr = NewRates(resp).err
    /\ last = NoCall
    /\ InitConns

Next ==
    \/ \E c \in Conns : SubscribeRates_Open(c)
    \/ \E c \in Conns : SubscribeRates_Recv(c)
    \/ \E c \in Conns : SubscribeRates_Lookup(c)
    \/ \E c \in Conns : SubscribeRates_Reply(c)
    \/ \E c \in Conns : SubscribeRates_Write(c)
    \/ \E c \in Conns : ClientStalls(c)
    \/ MonitorRates_Tick
    \/ HandleUpdates_Event
    \/ HandleUpdates_Range
    \/ HandleUpdates_Send
    \/ HandleUpdates_Loop
    \/ RuntimeFatal

Spec == Init /\ [][Next]_vars

\* the rate store on its own: construction from any feed, then refreshes and
\* unary lookups
InitRates ==
    /\ \E resp \in Responses :
         /\ rates = NewRates(resp).rates
         /\ newRatesErr = NewRates(resp).err
         /\ last = [op |-> "NewRates", arg |-> None, resp |-> None,
                    err |-> NewRates(resp).err, failed |-> FetchFailed(resp),
                    stored |-> NewRates(resp).stored]
    /\ InitConns

NextRates ==
    \/ CallGetRates
    \/ CallRate
    \/ CallGetRate

SpecRates == InitRates /\ [][NextRates]_vars

\* the rate store with a refresh and a lookup in flight at the same time
InitRefresh ==
    /\ \E resp \in Responses :
         /\ rates = NewRates(resp).rates
         /\ newRatesErr = NewRates(resp).err
    /\ last = NoCall
    /\ InitConns

NextRefresh ==
    \/ GetRates_Fetch
    \/ GetRates_Store
    \/ GetRates_Reference
    \/ GetRate_Call
    \/ GetRate_Base
    \/ GetRate_Dest
    \/ GetRate_Return
    \/ TableRuntimeFatal

SpecRefresh == InitRefresh /\ [][NextRefresh]_vars


\* ------------------------------------------------------ claims: rate store
Present(code) == code \in DOMAIN rates

\* C4: a GetRates call whose fetch failed (transport error, status other
\* than 200, or an unparseable rate anywhere in the feed) leaves the table
\* exactly as it was.
C4_FailedFetchKeepsTable ==
    [][(last'.op = "GetRates" /\ last'.failed) => rates' = rates]_vars

\* C5: the unary GetRate with base = destination fails with InvalidArgument
\* and returns no RateResponse, whatever the table holds.
C5_SameCurrencyInvalidArgument ==
    (last.op = "GetRate" /\ last.arg.Base = last.arg.Destination)
        => /\ last.resp = None
           /\ last.err.kind = "Status"
           /\ last.err.code = "InvalidArgument"

\* the same-currency request named a currency the table does not hold
C5_Witness ==
    /\ last.op = "GetRate"
    /\ last.arg.Base = last.arg.Destination
    /\ ~Present(last.arg.Base)
    /\ last.err.kind = "Status"
    /\ last.err.code = "InvalidArgument"

AbsentCode(req) == IF ~Present(req.Base) THEN req.Base ELSE req.Destination

\* C6: the unary GetRate with base # destination and a code missing from the
\* table fails with the not-found error naming the base when the base is
\* missing, otherwise the destination; it returns no rate and does not touch
\* the table.
C6_AbsentCodeNamed ==
    /\ [](  (/\ last.op = "GetRate"
             /\ last.arg.Base # last.arg.Destination
             /\ (~Present(last.arg.Base) \/ ~Present(last.arg.Destination)))
          => /\ last.resp = None
             /\ last.err = NotFound(AbsentCode(last.arg)))
    /\ [][last'.op = "GetRate" => rates' = rates]_vars

\* base is present, destination is not: the error names the destination
C6_Witness ==
    /\ last.op = "GetRate"
    /\ Present(last.arg.Base)
    /\ ~Present(last.arg.Destination)
    /\ last.err = NotFound(last.arg.Destination)

\* C7: after every GetRates return that stored feed data, EUR is in the
\* table with rate exactly 1.
C7_ReferenceIsOne ==
    (last.op = "GetRates" /\ last.stored > 0)
        => (Present("EUR") /\ rates["EUR"] = Scale)

ExampleTable == [c \in Currencies |->
                   CASE c = "EUR" -> 100 [] c = "USD" -> 110 [] c = "GBP" -> 85]

\* C8: for base and destination both in the table the lookup succeeds with
\* table[destination] / table[base]; rate(x, x) is 1; on the table
\* {EUR: 1.0, USD: 1.1, GBP: 0.85} the rate for (USD, GBP) is 0.85 / 1.1.
C8_CrossRate ==
    (last.op = "Rate" /\ Present(last.arg.Base) /\ Present(last.arg.Destination))
        => /\ last.err = NilErr
           /\ last.resp = Quot(rates[last.arg.Destination], rates[last.arg.Base])
           /\ last.arg.Base = last.arg.Destination => last.resp = One
           /\ (rates = ExampleTable /\ last.arg.Base = "USD"
                 /\ last.arg.Destination = "GBP")
                => last.resp = [kind |-> "num", num |-> 17, den |-> 22]


\* ------------------------------------------- claims: subscriptions, fan-out
NoDuplicatePairs ==
    \A c \in Conns : \A i, j \in 1..Len(Subs(c)) :
        i < j => ~SamePair(Subs(c)[i], Subs(c)[j])

\* connection c holds a request whose pair is already in its list
DuplicatePending(c) ==
    /\ pc[c] \in {"Lookup", "Reply"}
    /\ \E i \in 1..Len(Subs(c)) : SamePair(Subs(c)[i], rr[c])

AlreadyExistsFor(req) ==
    [kind |-> "Status", code |-> "AlreadyExists", details |-> <<req>>]

\* C1: a request whose pair is already recorded for its connection is
\* answered with an AlreadyExists error message on the stream and leaves
\* the connection's list as it was; no list ever holds a pair twice.
C1_DuplicateRejected ==
    /\ []NoDuplicatePairs
    /\ [][\A c \in Conns :
            DuplicatePending(c) =>
              /\ Subs(c)' = Subs(c)
              /\ (pc[c] = "Lookup" /\ pc'[c] # "Lookup") =>
                    /\ pc'[c] = "Reply"
                    /\ validationError'[c] = AlreadyExistsFor(rr[c])
              /\ (pc[c] = "Reply" /\ pc'[c] # "Reply") =>
                    /\ pc'[c] = "Recv"
                    /\ reply'[c] = [kind |-> "Error", status |-> AlreadyExistsFor(rr[c])]
         ]_vars

\* a second request for a recorded pair has been answered with the error
\* and the list still holds the pair once
C1_Witness ==
    \E c \in Conns :
      /\ pc[c] = "Recv"
      /\ Len(Subs(c)) = 1
      /\ reply[c] = [kind |-> "Error", status |-> AlreadyExistsFor(Subs(c)[1])]

\* C2: once a connection's SubscribeRates has returned, the registry holds
\* no entry for that connection.
C2_ClosedConnectionDropped ==
    \A c \in Conns : pc[c] = "Returned" => c \notin DOMAIN subscriptions

\* C3: in one scan the fan-out loop sends each connection one RateResponse
\* per recorded pair, in list order: never more messages than the connection
\* has pairs, by the end of the scan at least the pairs it had when the scan
\* began, and nothing to a connection with no recorded pair.
C3_OneResponsePerPair ==
    \A c \in Conns :
      /\ Len(sent[c]) <= Len(Subs(c))
      /\ \A i \in 1..Len(sent[c]) :
           /\ sent[c][i].kind = "RateResponse"
           /\ SamePair(sent[c][i], Subs(c)[i])
      /\ fpc = "Done" => Len(sent[c]) >= startLen[c]

\* a scan has ended in which A, with one pair, got one message and B, open
\* with no subscription, got none
C3_Witness ==
    /\ fpc = "Done"
    /\ Len(Subs("A")) = 1
    /\ startLen["A"] = 1
    /\ Len(sent["A"]) = 1
    /\ pc["B"] = "Recv"
    /\ "B" \notin DOMAIN subscriptions
    /\ sent["B"] = <<>>

\* C9: after a rejection the receive loop sends the error, keeps the stream
\* open and reads on; on io.EOF SubscribeRates returns nil; on any other
\* Recv error it returns that error.
C9_ReceiveLoop ==
    /\ [](\A c \in Conns :
            /\ pc[c] # "Returned" => ret[c] = None
            /\ pc[c] = "Returned" =>
                 /\ recvErr[c] = EOF => ret[c] = NilErr
                 /\ recvErr[c] \in RecvErrors => ret[c] = recvErr[c]
                 /\ recvErr[c] \in {EOF} \cup RecvErrors)
    /\ [][\A c \in Conns :
            (pc[c] = "Reply" /\ pc'[c] # "Reply") =>
              /\ pc'[c] = "Recv"
              /\ ret'[c] = None
              /\ reply'[c] = [kind |-> "Error", status |-> validationError[c]]
         ]_vars

\* after a rejection the loop read on, met end-of-stream and returned nil
C9_Witness ==
    \E c \in Conns :
      /\ reply[c].kind = "Error"
      /\ pc[c] = "Returned"
      /\ recvErr[c] = EOF
      /\ ret[c] = NilErr

\* C10: no receive loop writes the registry map while the fan-out loop is
\* iterating it or while another receive loop is writing it.
C10_RegistryExclusive ==
    \A c \in Conns :
      pc[c] = "Write" =>
        /\ ~Iterating
        /\ \A d \in Conns \ {c} : pc[d] # "Write"

\* ----------------------------------------------- claims: sends on a stream
\* C11: sends on one connection's stream are serialized: a receive loop is
\* never at its validation-error src.Send while the fan-out loop is at
\* k.Send on the same stream.
C11_SendsSerialized ==
    \A c \in Conns : ~(pc[c] = "Reply" /\ fpc = "Send" /\ k = c)

\* ------------------------------------------- claims: concurrent table access
\* C12: a lookup that runs while the table is refreshed returns what
\* ExchangeRates.GetRate gives on one of the tables that stood between
\* refreshes during the lookup: both rates it uses come from one snapshot.
C12_LookupFromOneSnapshot ==
    lookup.pc = "Done" =>
        \E S \in lookup.snaps :
            /\ ExchangeRates_GetRate(S, lookup.req.Base, lookup.req.Destination).rate
                 = lookup.rate
            /\ ExchangeRates_GetRate(S, lookup.req.Base, lookup.req.Destination).err
                 = lookup.err

\* ---------------------------------------------------- claims: construction
\* C13: NewRates returns a non-nil error whenever its first fetch failed:
\* on a transport error, on a status other than 200 and on a rate that does
\* not parse.
C13_ConstructionFailsLoudly ==
    (last.op = "NewRates" /\ last.failed) => newRatesErr # NilErr

\* ------------------------------------------------ claims: blocked fan-out
\* a step of handleUpdates
FanOutStep ==
    \/ HandleUpdates_Event
    \/ HandleUpdates_Range
    \/ HandleUpdates_Send
    \/ HandleUpdates_Loop

\* C14: the fan-out loop is never held up by a connection that does not
\* take its message: while a scan is under way (and the process is alive)
\* the loop always has a next step, so it gets to the other connections
\* and back to the event channel.
C14_FanOutNeverBlocked ==
    (fpc \in {"Range", "Send", "Done"} /\ ~crashed) => ENABLED FanOutStep

\* ------------------------------------------------- claims: pushed updates
\* C15: every RateResponse the fan-out loop sends for a pair carries
\* table[destination] / table[base] from the table as it stands; for a pair
\* with a code missing from the table nothing is sent.
C15_PushedRateFromTable ==
    [][\A c \in Conns :
         Len(sent'[c]) > Len(sent[c]) =>
           LET m == sent'[c][Len(sent'[c])]
           IN  /\ Present(m.Base)
               /\ Present(m.Destination)
               /\ m.Rate = Quot(rates[m.Destination], rates[m.Base])
      ]_vars

\* ------------------------------------------------ claims: closed connections
\* C16: a connection whose receive loop has terminated stays closed: no
\* subscription is added for it again, and a scan that begins after it
\* closed sends nothing on it.
C16_ClosedStaysClosed ==
    /\ [][\A c \in Conns :
            pc[c] = "Returned" => (pc'[c] = "Returned" /\ Subs(c)' = Subs(c))]_vars
    /\ [](\A c \in startClosed : sent[c] = <<>>)

\* ---------------------------------------------------- claims: failed sends
\* C17: the fan-out loop never changes the registry; after a Send that
\* failed the pair is still recorded and the loop goes on: to the next pair
\* of the same connection, or, after the last pair, to the connections the
\* scan has yet to visit.
C17_FanOutKeepsRegistry ==
    [][ /\ (fpc' # fpc \/ idx' # idx \/ sent' # sent) => subscriptions' = subscriptions
        /\ \A c \in Conns :
             (Len(sent'[c]) > Len(sent[c]) /\ err' = SendFailed) =>
               /\ Subs(c)' = Subs(c)
               /\ todo' = todo
               /\ IF idx < Len(v)
                  THEN fpc' = "Send" /\ k' = c /\ v' = v /\ idx' = idx + 1
                  ELSE fpc' = "Range"
      ]_vars

\* the Send of A's first pair failed; A still has both pairs, the loop is at
\* A's second pair and B is yet to be visited
C17_Witness ==
    /\ fpc = "Send"
    /\ k = "A"
    /\ idx = 2
    /\ err = SendFailed
    /\ Len(Subs("A")) = 2
    /\ Len(sent["A"]) = 1
    /\ "B" \in todo

\* ------------------------------------------------- claims: session isolation
\* C18: a step of one connection's receive loop (a subscribe, a rejected
\* duplicate, end-of-stream, a receive error) leaves every other
\* connection's list and the fan-out loop's position as they were, and no
\* such step brings the process, and with it the fan-out loop, down.
C18_SessionsIsolated ==
    /\ [][\A c \in Conns :
            pc'[c] # pc[c] =>
              /\ \A d \in Conns \ {c} : Subs(d)' = Subs(d)
              /\ fpc' = fpc
         ]_vars
    /\ [](~crashed)

====
